---- MODULE Spec2Model ----
(***************************************************************************)
(* Model of the schematic package: the walk that turns a Go type into a    *)
(* JSON Schema (GenerateSchema / GenerateProperties / GenerateRequired).   *)
(*                                                                         *)
(* Go strings that the code inspects character by character (identifiers,  *)
(* json tags, property keys) are sequences of one-character strings.       *)
(* Type strings (reflect.Type.String(), Kind.String(), the schema "type"   *)
(* keyword) are sequences of tokens: "*", "[]", "map[", "]", "chan ",      *)
(* "func(" and names, so that equality and strings.HasPrefix are exact.    *)
(***************************************************************************)
EXTENDS Integers, Sequences, FiniteSets, TLC

VARIABLES root, rootFields, pc, stack, visited, definitions, counter, schema, cuts, steps,
          descents,
          bpc, path, genSchema, pending, dir, files, ops, ret

\* the state of a walk (GenerateSchema)
walkVars ==
  <<root, rootFields, pc, stack, visited, definitions, counter, schema, cuts, steps, descents>>

\* the state of a run of the file writer (BuildEvents)
buildVars == <<bpc, path, genSchema, pending, dir, files, ops, ret>>

vars == <<walkVars, buildVars>>

(***************************************************************************)
(* Bounds of the model.                                                    *)
(***************************************************************************)
\* number of fields of the generated root composite
MaxFields == 2

(***************************************************************************)
(* Strings.                                                                *)
(***************************************************************************)
UpperChars == <<"A","B","C","D","E","F","G","H","I","J","K","L","M",
                "N","O","P","Q","R","S","T","U","V","W","X","Y","Z">>

LowerChars == <<"a","b","c","d","e","f","g","h","i","j","k","l","m",
                "n","o","p","q","r","s","t","u","v","w","x","y","z">>

\* unicode.IsUpper
IsUpper(c) == \E k \in DOMAIN UpperChars : UpperChars[k] = c

\* unicode.ToLower
ToLower(c) == IF IsUpper(c)
              THEN LowerChars[CHOOSE k \in DOMAIN UpperChars : UpperChars[k] = c]
              ELSE c

RECURSIVE SnakeFrom(_, _)
SnakeFrom(s, i) ==
  IF i > Len(s) THEN <<>>
  ELSE (IF IsUpper(s[i])
        THEN (IF i > 1 THEN <<"_">> ELSE <<>>) \o <<ToLower(s[i])>>
        ELSE <<s[i]>>) \o SnakeFrom(s, i + 1)

\* a bug a converter could have: the underscore also in front of position 0
toSnakeCaseLeadingUnderscore(s) ==
  IF Len(s) > 0 /\ IsUpper(s[1]) THEN <<"_">> \o SnakeFrom(s, 1) ELSE SnakeFrom(s, 1)

toSnakeCase(s) == SnakeFrom(s, 1)

RECURSIVE SplitFrom(_, _, _)
SplitFrom(s, i, cur) ==
  IF i > Len(s) THEN <<cur>>
  ELSE IF s[i] = "," THEN <<cur>> \o SplitFrom(s, i + 1, <<>>)
  ELSE SplitFrom(s, i + 1, Append(cur, s[i]))

\* strings.Split(s, ",")
Split(s) == SplitFrom(s, 1, <<>>)

RECURSIVE Join(_)
\* strings.Join(parts, ",")
Join(parts) ==
  IF Len(parts) = 0 THEN <<>>
  ELSE IF Len(parts) = 1 THEN parts[1]
  ELSE parts[1] \o <<",">> \o Join(Tail(parts))

\* strings.Contains(s, sub)
Contains(s, sub) ==
  \E k \in 0..(Len(s) - Len(sub)) : SubSeq(s, k + 1, k + Len(sub)) = sub

\* strings.HasPrefix(defType, p) for a one-token prefix p
HasPrefix(ts, p) == Len(ts) > 0 /\ ts[1] = p

OmitEmpty == <<"o","m","i","t","e","m","p","t","y">>

TagsKey == <<"t","a","g","s">>

Dash == <<"-">>

(***************************************************************************)
(* reflect.Type.  A type descriptor is a record: kind (Kind().String()),   *)
(* qual (the qualified name String() prints for a named type, "" for an    *)
(* unnamed one), name (Name()), elem (Elem(), as a sequence of length 0 or *)
(* 1), key (Key() of a map) and sid (the declaration of a composite).      *)
(***************************************************************************)
Basic(k) == [kind |-> k, qual |-> k, name |-> k, elem |-> <<>>, key |-> <<>>, sid |-> ""]

NamedOf(k, pkg, n, el) ==
  [kind |-> k, qual |-> pkg \o "." \o n, name |-> n, elem |-> el, key |-> <<>>, sid |-> ""]

PtrTo(t) == [kind |-> "ptr", qual |-> "", name |-> "", elem |-> <<t>>, key |-> <<>>, sid |-> ""]

SliceOf(t) == [kind |-> "slice", qual |-> "", name |-> "", elem |-> <<t>>, key |-> <<>>, sid |-> ""]

MapOf(k, v) == [kind |-> "map", qual |-> "", name |-> "", elem |-> <<v>>, key |-> <<k>>, sid |-> ""]

\* a named composite declared in package pkg
StructOf(pkg, n) ==
  [kind |-> "struct", qual |-> pkg \o "." \o n, name |-> n, elem |-> <<>>, key |-> <<>>,
   sid |-> pkg \o "." \o n]

\* an anonymous composite, struct { ... }
AnonStruct(id) ==
  [kind |-> "struct", qual |-> "", name |-> "", elem |-> <<>>, key |-> <<>>, sid |-> id]

\* interface{} / any
AnyT == [kind |-> "interface", qual |-> "", name |-> "", elem |-> <<>>, key |-> <<>>, sid |-> ""]

\* the builtin named interface error
ErrorT ==
  [kind |-> "interface", qual |-> "error", name |-> "error", elem |-> <<>>, key |-> <<>>,
   sid |-> ""]

\* reflect.TypeOf(nil): no type at all
NilT == [kind |-> "nil", qual |-> "", name |-> "", elem |-> <<>>, key |-> <<>>, sid |-> ""]

Elem(t) == t.elem[1]

RECURSIVE TypeString(_)
\* reflect.Type.String()
TypeString(t) ==
  IF t.qual # "" THEN <<t.qual>>
  ELSE CASE t.kind = "ptr" -> <<"*">> \o TypeString(Elem(t))
         [] t.kind = "slice" -> <<"[]">> \o TypeString(Elem(t))
         [] t.kind = "map" -> <<"map[">> \o TypeString(t.key[1]) \o <<"]">> \o TypeString(Elem(t))
         [] t.kind = "interface" -> <<"interface {}">>
         [] t.kind = "struct" -> <<"struct {", t.sid, "}">>
         [] t.kind = "chan" -> <<"chan ">> \o TypeString(Elem(t))
         [] t.kind = "func" -> <<"func(", ")">>
         [] t.kind = "array" -> <<"[3]">> \o TypeString(Elem(t))

(***************************************************************************)
(* TypeClassifier: typeMapping and convertToEventName.                     *)
(***************************************************************************)
Row(k, t, f) == [key |-> k, jsonType |-> t, format |-> f, skipNested |-> TRUE]

ZeroRow(k) == [key |-> k, jsonType |-> <<>>, format |-> "", skipNested |-> FALSE]

WithPtr(n, t) == {Row(<<n>>, <<t>>, ""), Row(<<"*", n>>, <<t>>, "")}

typeMapping ==
  {Row(<<"uuid.UUID">>, <<"string">>, "uuid"), Row(<<"EventName">>, <<"string">>, "")}
  \cup WithPtr("string", "string")
  \cup WithPtr("float64", "number") \cup WithPtr("float32", "number")
  \cup WithPtr("int", "integer") \cup WithPtr("uint", "integer")
  \cup WithPtr("uint8", "integer") \cup WithPtr("uint16", "integer")
  \cup WithPtr("uint32", "integer") \cup WithPtr("uint64", "integer")
  \cup WithPtr("int8", "integer") \cup WithPtr("int16", "integer")
  \cup WithPtr("int32", "integer") \cup WithPtr("int64", "integer")
  \cup WithPtr("bool", "boolean")
  \cup {Row(<<"time.Time">>, <<"string">>, "date-time"),
        Row(<<"*", "time.Time">>, <<"string">>, "date-time")}
  \cup {ZeroRow(<<"interface{}">>), ZeroRow(<<"*", "interface{}">>), ZeroRow(<<"any">>)}
  \cup WithPtr("json.RawMessage", "string")
  \cup {Row(<<"[]", "byte">>, <<"string">>, "byte"),
        Row(<<"*", "[]", "byte">>, <<"string">>, "byte")}

Conv(t, f, s) == [t |-> t, format |-> f, skip |-> s]

RECURSIVE convertToEventName(_, _)
\* refType is <<>> for nil, <<t>> for &t
convertToEventName(defType, refType) ==
  IF defType = <<"interface{}">> \/ defType = <<"*", "interface{}">> THEN Conv(<<>>, "", TRUE)
  ELSE IF \E r \in typeMapping : r.key = defType
  THEN LET mapping == CHOOSE r \in typeMapping : r.key = defType
       IN Conv(mapping.jsonType, mapping.format, mapping.skipNested)
  ELSE IF HasPrefix(defType, "map[") THEN Conv(<<"object">>, "", TRUE)
  ELSE IF HasPrefix(defType, "chan ") \/ HasPrefix(defType, "<-chan ")
          \/ HasPrefix(defType, "chan<- ") THEN Conv(<<"string">>, "", TRUE)
  ELSE IF HasPrefix(defType, "func(") THEN Conv(<<"string">>, "", TRUE)
  ELSE IF refType # <<>> /\ refType[1].kind = "interface" THEN Conv(<<>>, "", TRUE)
  ELSE IF refType # <<>> /\ refType[1].kind # "ptr"
  THEN convertToEventName(<<refType[1].kind>>, <<>>)
  ELSE IF refType # <<>> /\ Elem(refType[1]).kind # "struct"
  THEN convertToEventName(<<Elem(refType[1]).kind>>, <<>>)
  ELSE Conv(defType, "", FALSE)

typeArray == <<"array">>

(***************************************************************************)
(* fieldInfo and the per-field analysis.  A field (reflect.StructField) is *)
(* [Name, Tag, Type], Tag being the value of Tag.Get("json").              *)
(***************************************************************************)
Field(n, tag, t) == [Name |-> n, Tag |-> tag, Type |-> t]

ZeroInfo(field, tagName) ==
  [Field |-> field, TagName |-> tagName, TypeName |-> <<>>, Format |-> "",
   SliceFormat |-> "", SliceType |-> <<>>, SkipNested |-> FALSE, IsArray |-> FALSE]

handleSliceType(info, fieldType) ==
  LET elemType == Elem(fieldType)
      st == IF elemType.kind = "ptr" THEN TypeString(elemType) ELSE <<elemType.kind>>
      c == convertToEventName(st, <<>>)
  IN [info EXCEPT !.SliceType = c.t, !.SliceFormat = c.format, !.SkipNested = c.skip]

handlePointerType(info, fieldType) ==
  LET elemType == Elem(fieldType)
  IN IF elemType.kind = "slice"
     THEN LET c == convertToEventName(TypeString(Elem(elemType)), <<fieldType>>)
          IN [info EXCEPT !.IsArray = TRUE, !.TypeName = typeArray, !.SliceType = c.t,
                          !.SliceFormat = c.format, !.SkipNested = c.skip]
     ELSE LET c == convertToEventName(info.TypeName, <<fieldType>>)
          IN [info EXCEPT !.TypeName = c.t, !.Format = c.format, !.SkipNested = c.skip]

analyzeFieldType(info0) ==
  LET fieldType == info0.Field.Type
      info == [info0 EXCEPT !.TypeName = TypeString(fieldType)]
  IN IF info.TypeName = <<"interface{}">>
     THEN [info EXCEPT !.TypeName = <<>>, !.Format = "", !.SkipNested = TRUE]
     ELSE IF info.TypeName = <<"[]", "byte">> \/ info.TypeName = <<"[]", "uint8">>
     THEN [info EXCEPT !.TypeName = <<"string">>, !.Format = "byte", !.SkipNested = TRUE,
                       !.IsArray = FALSE]
     ELSE IF fieldType.kind = "slice"
     THEN handleSliceType([info EXCEPT !.IsArray = TRUE, !.TypeName = typeArray], fieldType)
     ELSE IF fieldType.kind = "ptr" THEN handlePointerType(info, fieldType)
     ELSE LET c == convertToEventName(info.TypeName, <<fieldType>>)
          IN [info EXCEPT !.TypeName = c.t, !.Format = c.format, !.SkipNested = c.skip]

extractFieldInfo(field) ==
  LET args == Split(field.Tag)
      tagName == args[1]
  IN IF tagName = Dash THEN ZeroInfo(field, Dash)
     ELSE analyzeFieldType(ZeroInfo(field, IF Len(tagName) = 0
                                           THEN toSnakeCase(field.Name) ELSE tagName))


(***************************************************************************)
(* The declarations the walk is run on: a library of composites, and one   *)
(* generated composite main.R whose fields are drawn from FieldPool.       *)
(***************************************************************************)
StringT == Basic("string")

IntT == Basic("int")

BytesT == SliceOf(Basic("uint8"))

RawMessageT == NamedOf("slice", "json", "RawMessage", <<Basic("uint8")>>)

StringAliasT == NamedOf("string", "schematic", "StringAliasType", <<>>)

TimeT == StructOf("time", "Time")

LeafT == StructOf("main", "Leaf")

OtherLeafT == StructOf("other", "Leaf")

PairT == StructOf("main", "Pair")

RecT == StructOf("main", "Rec")

NodeT == StructOf("main", "Node")

MAT == StructOf("main", "MA")

MBT == StructOf("main", "MB")

MidT == StructOf("main", "Mid")

EmptyT == StructOf("main", "Empty")

AnonT == AnonStruct("U string; V string; W string")

\* type Labels map[string]string
LabelsT == NamedOf("map", "main", "Labels", <<StringT>>)

ChanT == [kind |-> "chan", qual |-> "", name |-> "", elem |-> <<IntT>>, key |-> <<>>, sid |-> ""]

FuncT == [kind |-> "func", qual |-> "", name |-> "", elem |-> <<>>, key |-> <<>>, sid |-> ""]

\* a fixed-size array of int
ArrayT == [kind |-> "array", qual |-> "", name |-> "", elem |-> <<IntT>>, key |-> <<>>, sid |-> ""]

ShapesT == StructOf("main", "Shapes")

SeqsT == StructOf("main", "Seqs")

RT == StructOf("main", "R")

StructFields(sid) ==
  CASE sid = "main.Leaf" ->
         <<Field(<<"A">>, <<"a">>, StringT), Field(<<"B">>, <<"b">>, IntT),
           Field(<<"C">>, <<"c", ",", "o","m","i","t","e","m","p","t","y">>, Basic("bool"))>>
    [] sid = "other.Leaf" ->
         <<Field(<<"P">>, <<"p">>, StringT), Field(<<"Q">>, <<"q">>, StringT),
           Field(<<"R">>, <<"r">>, StringT)>>
    [] sid = "main.Pair" ->
         <<Field(<<"X">>, <<"x">>, StringT), Field(<<"Y">>, <<"y">>, PtrTo(IntT))>>
    [] sid = "main.Rec" ->
         <<Field(<<"N">>, <<"n">>, StringT),
           Field(<<"K">>, <<"k", ",", "o","m","i","t","e","m","p","t","y">>, SliceOf(RecT))>>
    [] sid = "main.Node" ->
         <<Field(<<"N","e","x","t">>, <<>>, PtrTo(NodeT)), Field(<<"V">>, <<"v">>, IntT)>>
    [] sid = "main.MA" ->
         <<Field(<<"B">>, <<"b">>, MBT), Field(<<"V">>, <<"v">>, StringT)>>
    [] sid = "main.MB" ->
         <<Field(<<"A">>, <<"a">>, PtrTo(MAT)), Field(<<"S">>, <<"s">>, SliceOf(MAT))>>
    [] sid = "main.Mid" ->
         <<Field(<<"X">>, <<"x">>, LeafT), Field(<<"Y">>, <<"y">>, LeafT),
           Field(<<"Z">>, <<"z">>, PtrTo(LeafT)), Field(<<"W">>, <<"w">>, SliceOf(LeafT))>>
    [] sid = "main.Empty" -> <<>>
    [] sid = "main.Shapes" ->
         <<Field(<<"D">>, <<"d">>, MapOf(StringT, IntT)), Field(<<"M">>, <<"m">>, LabelsT),
           Field(<<"P">>, <<"p">>, PtrTo(MapOf(StringT, IntT))),
           Field(<<"C">>, <<"c">>, ChanT), Field(<<"F">>, <<"f">>, FuncT),
           Field(<<"A">>, <<"a">>, ArrayT), Field(<<"E">>, <<"e">>, EmptyT)>>
    [] sid = "main.Seqs" ->
         <<Field(<<"A">>, <<"a">>, SliceOf(LeafT)), Field(<<"B">>, <<"b">>, PtrTo(SliceOf(LeafT))),
           Field(<<"C">>, <<"c">>, SliceOf(PtrTo(LeafT))),
           Field(<<"D">>, <<"d">>, PtrTo(SliceOf(PtrTo(LeafT)))),
           Field(<<"E">>, <<"e">>, SliceOf(EmptyT)), Field(<<"F">>, <<"f">>, PtrTo(SliceOf(EmptyT)))>>
    [] sid = "time.Time" ->
         <<Field(<<"w","a","l","l">>, <<>>, Basic("uint64")),
           Field(<<"e","x","t">>, <<>>, Basic("int64")),
           Field(<<"l","o","c">>, <<>>, PtrTo(StructOf("time", "Location")))>>
    [] sid = "U string; V string; W string" ->
         <<Field(<<"U">>, <<>>, StringT), Field(<<"V">>, <<>>, StringT),
           Field(<<"W">>, <<>>, StringT)>>

\* t.NumField(), t.Field(i) of a composite
Fields(t) == IF t.sid = "main.R" THEN rootFields ELSE StructFields(t.sid)

(***************************************************************************)
(* RequiredSetBuilder: GenerateRequired.                                   *)
(***************************************************************************)
\* a bug the builder could have: the omit-if-empty marker ignored
RequiredOfFieldNoOmit(field) ==
  LET tag == field.Tag
      args == Split(tag)
      tagName == args[1]
  IN IF tag = Dash THEN <<>>
     ELSE IF field.Type.kind = "slice" THEN <<>>
     ELSE IF field.Type.kind # "ptr"
     THEN <<IF Len(tagName) = 0 THEN toSnakeCase(field.Name) ELSE tagName>>
     ELSE (IF tagName = TagsKey THEN <<tagName>> ELSE <<>>)

\* one iteration of the loop over the fields
RequiredOfField(field) ==
  LET tag == field.Tag
      args == Split(tag)
      tagName == args[1]
  IN IF tag = Dash THEN <<>>
     ELSE IF field.Type.kind = "slice" THEN <<>>
     ELSE IF field.Type.kind # "ptr"
     THEN (IF ~Contains(Join(Tail(args)), OmitEmpty)
           THEN <<IF Len(tagName) = 0 THEN toSnakeCase(field.Name) ELSE tagName>>
           ELSE <<>>)
     ELSE (IF tagName = TagsKey THEN <<tagName>> ELSE <<>>)

RECURSIVE RequiredFrom(_, _)
RequiredFrom(fs, i) ==
  IF i > Len(fs) THEN <<>> ELSE RequiredOfField(fs[i]) \o RequiredFrom(fs, i + 1)

\* GenerateRequired(nil, t) for a type t that is not nil
GenerateRequired(t0) ==
  LET t == IF t0.kind = "ptr" THEN Elem(t0) ELSE t0
  IN IF t0.kind \in {"string", "slice", "int", "bool", "interface", "map", "chan", "func",
                     "float32", "float64", "int8", "int16", "int32", "int64",
                     "uint", "uint8", "uint16", "uint32", "uint64"}
     THEN <<>>
     ELSE IF t.kind # "struct" THEN <<>>
     ELSE RequiredFrom(Fields(t), 1)


(***************************************************************************)
(* PropertyDefinition and the DefinitionExtractor.  A nil map and an empty *)
(* map are both the empty function; a nil *PropertyDefinition is <<>>.     *)
(***************************************************************************)
EmptyMap == [k \in {} |-> <<>>]

MapPut(m, k, v) == [x \in (DOMAIN m) \cup {k} |-> IF x = k THEN v ELSE m[x]]

MapLen(m) == Cardinality(DOMAIN m)

PropertyDefinition(type, desc, format, required, items, props, ref) ==
  [Type |-> type, Description |-> desc, Format |-> format, Required |-> required,
   Items |-> items, Properties |-> props, Ref |-> ref]

Digits == <<"0", "1", "2", "3", "4", "5", "6", "7", "8", "9">>

RECURSIVE Itoa(_)
\* strconv.Itoa of a non-negative int
Itoa(n) == IF n < 10 THEN Digits[n + 1] ELSE Itoa(n \div 10) \o Digits[(n % 10) + 1]

shouldUseDefinition(fieldType, nested) == MapLen(nested) > 2 /\ fieldType.kind = "struct"

\* the result of building one field: the property and the context it leaves
Built(prop, defs, ctr) == [prop |-> prop, defs |-> defs, ctr |-> ctr]

createDefinitionReference(info, nested, required, defs, ctr) ==
  LET anon == info.Field.Type.name = ""
      defName == IF anon THEN "AnonymousStruct" \o Itoa(ctr) ELSE info.Field.Type.name
      stored == PropertyDefinition(<<"object">>, info.Field.Name, "", required, <<>>, nested, "")
  IN Built(PropertyDefinition(<<>>, info.Field.Name, "", <<>>, <<>>, EmptyMap,
                              "#/$defs/" \o defName),
           IF defName \in DOMAIN defs THEN defs ELSE MapPut(defs, defName, stored),
           IF anon THEN ctr + 1 ELSE ctr)

\* a bug the builder could have: the item definition left out
buildArrayPropertyNoItems(info, nested, required) ==
  PropertyDefinition(typeArray, info.Field.Name, info.Format, required, <<>>, EmptyMap, "")

buildArrayProperty(info, nested, required) ==
  LET sliceTypeName == IF MapLen(nested) > 0 THEN <<"object">> ELSE info.SliceType
      items == PropertyDefinition(sliceTypeName, info.Field.Name, info.SliceFormat, required,
                                  <<>>, nested, "")
  IN PropertyDefinition(typeArray, info.Field.Name, info.Format, required, <<items>>,
                        EmptyMap, "")

buildObjectProperty(info, nested, required) ==
  LET typeName == IF MapLen(nested) > 0 /\ info.TypeName # typeArray
                  THEN <<"object">> ELSE info.TypeName
  IN PropertyDefinition(typeName, info.Field.Name, info.Format, required, <<>>, nested, "")

\* buildFieldProperty once nested and required are known
finishFieldProperty(info, nested, required, defs, ctr) ==
  IF shouldUseDefinition(info.Field.Type, nested)
  THEN createDefinitionReference(info, nested, required, defs, ctr)
  ELSE IF info.IsArray THEN Built(buildArrayProperty(info, nested, required), defs, ctr)
  ELSE Built(buildObjectProperty(info, nested, required), defs, ctr)

(***************************************************************************)
(* RecordWalker: buildProperties, reflectStruct, buildFieldProperty.       *)
(* The recursion is an explicit stack of reflectStruct activations:        *)
(* t the composite, nc its nestedCounter, i the loop index (from 1),       *)
(* props the properties built so far.                                      *)
(***************************************************************************)
\* the composite buildProperties would expand for t, <<>> when it breaks before
expandTarget(t) ==
  CASE t.kind = "slice" ->
         LET e == IF Elem(t).kind = "ptr" THEN Elem(Elem(t)) ELSE Elem(t)
         IN IF e.kind # "struct" THEN <<>> ELSE <<e>>
    [] t.kind = "struct" -> <<t>>
    [] t.kind = "ptr" ->
         LET t1 == IF Elem(t).kind = "slice" /\ Elem(Elem(t)).kind = "struct"
                   THEN Elem(t) ELSE t
         IN IF Elem(t1).kind # "struct" THEN <<>> ELSE <<Elem(t1)>>
    [] OTHER -> <<>>

\* the t that buildProperties hands to GenerateRequired when it returns
requiredTarget(t) ==
  IF t.kind = "ptr" /\ Elem(t).kind = "slice" /\ Elem(Elem(t)).kind = "struct"
  THEN Elem(t) ELSE t

\* a bug the guard could have: no guard at all
cycleGuardNever(t, nestedCounter) == FALSE

\* a bug the guard could have: the counter compared with 0, so that the
\* root's own fields are stopped as well
cycleGuardAnyDepth(t, nestedCounter) == t \in visited /\ nestedCounter > 0

\* the guard of buildProperties: ctx.visited[t] && nestedCounter > 1
cycleGuard(t, nestedCounter) == t \in visited /\ nestedCounter > 1

\* a call of buildProperties made for a field that holds composite t: its
\* nestedCounter, whether t was in ctx.visited, the depth of the composite the
\* field belongs to (1 for the root), and whether the guard stopped it
Descent(t, nc, depth, cut) ==
  [t |-> t, nc |-> nc, seen |-> t \in visited, depth |-> depth, cut |-> cut]

Frame(t, nc) == [t |-> t, nc |-> nc, i |-> 1, props |-> EmptyMap]

top == stack[Len(stack)]

atField == pc = "walk" /\ Len(stack) > 0 /\ top.i <= Len(Fields(top.t))

atEnd == pc = "walk" /\ Len(stack) > 0 /\ top.i > Len(Fields(top.t))

topField == Fields(top.t)[top.i]

\* the composites being expanded on the current descent path
pathTypes == {stack[k].t : k \in 1..Len(stack)}

\* reflectStruct stores the property of the current field and moves on
storeProperty(frame, key, b) ==
  /\ stack' = [stack EXCEPT ![Len(stack)] =
                 [frame EXCEPT !.props = MapPut(frame.props, key, b.prop), !.i = frame.i + 1]]
  /\ definitions' = b.defs
  /\ counter' = b.ctr

NoSchema == [Type |-> "", Required |-> <<>>, Properties |-> EmptyMap, Definitions |-> EmptyMap]

\* GenerateSchema, once the properties are known
assembleSchema(properties) ==
  [Type |-> "object", Required |-> GenerateRequired(root), Properties |-> properties,
   Definitions |-> definitions]

(***************************************************************************)
(* Inputs.                                                                 *)
(***************************************************************************)
OE == <<",", "o","m","i","t","e","m","p","t","y">>

FieldPool ==
  { Field(<<"I","O","h">>, <<>>, StringT),
    Field(<<"n">>, <<>>, IntT),
    Field(<<"S">>, <<"-">>, StringT),
    Field(<<"D">>, <<"-", ",">>, StringT),
    Field(<<"T","a","g","s">>, <<>>, PtrTo(StringT)),
    Field(<<"T">>, <<"t","a","g","s">> \o OE, PtrTo(LeafT)),
    Field(<<"P">>, <<"p">>, PtrTo(IntT)),
    Field(<<"O">>, <<"o">> \o OE, StringT),
    Field(<<"L">>, <<"l">>, SliceOf(StringT)),
    Field(<<"Y">>, <<"y">>, AnyT),
    Field(<<"E">>, <<"e">> \o OE, ErrorT),
    Field(<<"B">>, <<"b">>, BytesT),
    Field(<<"J">>, <<"j">>, RawMessageT),
    Field(<<"Q">>, <<"q">>, PtrTo(BytesT)),
    Field(<<"M">>, <<"m">>, MapOf(StringT, AnyT)),
    Field(<<"A">>, <<"a">>, StringAliasT),
    Field(<<"W">>, <<"w">>, TimeT),
    Field(<<"X">>, <<"x">>, LeafT),
    Field(<<"Z">>, <<"z">>, LeafT),
    Field(<<"V">>, <<"x">>, SliceOf(PtrTo(LeafT))),
    Field(<<"G">>, <<"g">>, PtrTo(SliceOf(LeafT))),
    Field(<<"H">>, <<"h">>, PtrTo(SliceOf(PtrTo(LeafT)))),
    Field(<<"K">>, <<"k">>, MidT),
    Field(<<"F">>, <<"f">>, OtherLeafT),
    Field(<<"U">>, <<"u">>, AnonT),
    Field(<<"C">>, <<"c">>, PairT),
    Field(<<"R">>, <<"r">>, PtrTo(RT)),
    Field(<<"N">>, <<"n">>, SliceOf(RT)) }

RECURSIVE SeqsUpTo(_, _)
SeqsUpTo(S, n) ==
  IF n = 0 THEN {<<>>}
  ELSE LET shorter == SeqsUpTo(S, n - 1)
       IN shorter \cup {Append(q, x) : q \in shorter, x \in S}

\* roots that are not the generated composite
FixedRoots ==
  { MidT, RecT, NodeT, MAT, MBT, EmptyT, LeafT, PtrTo(MidT), SliceOf(RecT),
    SliceOf(PtrTo(NodeT)), PtrTo(SliceOf(MAT)), PtrTo(SliceOf(PtrTo(MAT))),
    ShapesT, SeqsT, PtrTo(ShapesT),
    StringT, SliceOf(StringT), MapOf(StringT, IntT), PtrTo(IntT), NilT }

\* no file writer is running
BuildOff ==
  /\ bpc = "off" /\ path = <<>> /\ genSchema = {} /\ pending = {}
  /\ dir = "present" /\ files = [k \in {} |-> <<>>] /\ ops = <<>> /\ ret = <<>>

Init ==
  /\ BuildOff
  /\ \/ root = RT /\ rootFields \in SeqsUpTo(FieldPool, MaxFields)
     \/ root \in FixedRoots /\ rootFields = <<>>
  /\ pc = "start"
  /\ stack = <<>>
  /\ visited = {}
  /\ definitions = EmptyMap
  /\ counter = 0
  /\ schema = NoSchema
  /\ cuts = {}
  /\ steps = 0
  /\ descents = <<>>

(***************************************************************************)
(* Actions.                                                                *)
(***************************************************************************)
\* reflect.TypeOf(nil).Kind(): a nil dereference
StartPanic ==
  /\ pc = "start" /\ root = NilT
  /\ pc' = "panic"
  /\ UNCHANGED <<root, rootFields, stack, visited, definitions, counter, schema, cuts, descents>>
  /\ steps' = steps + 1
  /\ UNCHANGED buildVars

\* buildProperties(root, 0) reaches reflectStruct
StartWalk ==
  /\ pc = "start" /\ root # NilT
  /\ expandTarget(root) # <<>>
  /\ LET t == expandTarget(root)[1]
     IN /\ ~cycleGuard(t, 0)
        /\ visited' = visited \cup {t}
        /\ stack' = <<Frame(t, 0)>>
  /\ pc' = "walk"
  /\ UNCHANGED <<root, rootFields, definitions, counter, schema, cuts, descents>>
  /\ steps' = steps + 1
  /\ UNCHANGED buildVars

\* buildProperties(root, 0) breaks out of its switch: nothing to expand
StartEmpty ==
  /\ pc = "start" /\ root # NilT
  /\ expandTarget(root) = <<>>
  /\ schema' = assembleSchema(EmptyMap)
  /\ pc' = "done"
  /\ UNCHANGED <<root, rootFields, stack, visited, definitions, counter, cuts, descents>>
  /\ steps' = steps + 1
  /\ UNCHANGED buildVars

\* reflectStruct: json:"-" or an empty key, continue
SkipField ==
  /\ atField
  /\ LET info == extractFieldInfo(topField)
     IN /\ info.TagName = Dash \/ info.TagName = <<>>
        /\ stack' = [stack EXCEPT ![Len(stack)].i = top.i + 1]
  /\ UNCHANGED <<root, rootFields, pc, visited, definitions, counter, schema, cuts, descents>>
  /\ steps' = steps + 1
  /\ UNCHANGED buildVars

\* buildFieldProperty of a field classified terminal (SkipNested)
TerminalField ==
  /\ atField
  /\ LET info == extractFieldInfo(topField)
     IN /\ ~(info.TagName = Dash \/ info.TagName = <<>>)
        /\ info.SkipNested
        /\ storeProperty(top, info.TagName,
                         finishFieldProperty(info, EmptyMap, <<>>, definitions, counter))
  /\ UNCHANGED <<root, rootFields, pc, visited, schema, cuts, descents>>
  /\ steps' = steps + 1
  /\ UNCHANGED buildVars

\* buildFieldProperty -> buildProperties breaks: the type holds no composite
FlatField ==
  /\ atField
  /\ LET info == extractFieldInfo(topField)
     IN /\ ~(info.TagName = Dash \/ info.TagName = <<>>)
        /\ ~info.SkipNested
        /\ expandTarget(info.Field.Type) = <<>>
        /\ storeProperty(top, info.TagName,
                         finishFieldProperty(info, EmptyMap,
                            GenerateRequired(requiredTarget(info.Field.Type)),
                            definitions, counter))
  /\ UNCHANGED <<root, rootFields, pc, visited, schema, cuts, descents>>
  /\ steps' = steps + 1
  /\ UNCHANGED buildVars

\* buildFieldProperty -> buildProperties breaks on the cycle guard
CutField ==
  /\ atField
  /\ LET info == extractFieldInfo(topField)
     IN /\ ~(info.TagName = Dash \/ info.TagName = <<>>)
        /\ ~info.SkipNested
        /\ expandTarget(info.Field.Type) # <<>>
        /\ LET t == expandTarget(info.Field.Type)[1]
               b == finishFieldProperty(info, EmptyMap,
                                        GenerateRequired(requiredTarget(info.Field.Type)),
                                        definitions, counter)
           IN /\ cycleGuard(t, top.nc + 1)
              /\ cuts' = cuts \cup {[t |-> t, nc |-> top.nc + 1, onPath |-> t \in pathTypes,
                                     in |-> top.t, field |-> info.Field, prop |-> b.prop]}
              /\ descents' = Append(descents, Descent(t, top.nc + 1, Len(stack), TRUE))
              /\ storeProperty(top, info.TagName, b)
  /\ UNCHANGED <<root, rootFields, pc, visited, schema>>
  /\ steps' = steps + 1
  /\ UNCHANGED buildVars

\* buildFieldProperty -> buildProperties -> reflectStruct of the field's composite
DescendField ==
  /\ atField
  /\ LET info == extractFieldInfo(topField)
     IN /\ ~(info.TagName = Dash \/ info.TagName = <<>>)
        /\ ~info.SkipNested
        /\ expandTarget(info.Field.Type) # <<>>
        /\ LET t == expandTarget(info.Field.Type)[1]
           IN /\ ~cycleGuard(t, top.nc + 1)
              /\ visited' = visited \cup {t}
              /\ stack' = Append(stack, Frame(t, top.nc + 1))
              /\ descents' = Append(descents, Descent(t, top.nc + 1, Len(stack), FALSE))
  /\ UNCHANGED <<root, rootFields, pc, definitions, counter, schema, cuts>>
  /\ steps' = steps + 1
  /\ UNCHANGED buildVars

\* reflectStruct returns into the buildFieldProperty that descended
ReturnField ==
  /\ atEnd /\ Len(stack) > 1
  /\ LET parent == stack[Len(stack) - 1]
         info == extractFieldInfo(Fields(parent.t)[parent.i])
         b == finishFieldProperty(info, top.props,
                                  GenerateRequired(requiredTarget(info.Field.Type)),
                                  definitions, counter)
     IN /\ stack' = [SubSeq(stack, 1, Len(stack) - 1) EXCEPT ![Len(stack) - 1] =
                       [parent EXCEPT !.props = MapPut(parent.props, info.TagName, b.prop),
                                      !.i = parent.i + 1]]
        /\ definitions' = b.defs
        /\ counter' = b.ctr
  /\ UNCHANGED <<root, rootFields, pc, visited, schema, cuts, descents>>
  /\ steps' = steps + 1
  /\ UNCHANGED buildVars

\* the outermost reflectStruct returns: GenerateSchema assembles the Schema
ReturnRoot ==
  /\ atEnd /\ Len(stack) = 1
  /\ schema' = assembleSchema(top.props)
  /\ stack' = <<>>
  /\ pc' = "done"
  /\ UNCHANGED <<root, rootFields, visited, definitions, counter, cuts, descents>>
  /\ steps' = steps + 1
  /\ UNCHANGED buildVars

Next ==
  \/ StartPanic
  \/ StartWalk
  \/ StartEmpty
  \/ SkipField
  \/ TerminalField
  \/ FlatField
  \/ CutField
  \/ DescendField
  \/ ReturnField
  \/ ReturnRoot

Spec == Init /\ [][Next]_vars

(***************************************************************************)
(* The file writer: BuildEvents and buildFileName.  genSchema is the map   *)
(* of schemas, as a set of [name, Title] entries with distinct names;      *)
(* pending holds the entries the range loop has not reached; dir is what   *)
(* os.Stat finds at the path; files maps each file written to the entry    *)
(* whose serialization it holds; ops logs every collaborator call; ret is  *)
(* <<>> while BuildEvents runs, then the error it returned.                *)
(***************************************************************************)
\* the largest number of entries of the schema map
MaxSchemas == 2

JsonExt == <<".", "j", "s", "o", "n">>

\* strings.ReplaceAll(name, ".", "_") + ".json"
buildFileName(name) == [k \in 1..Len(name) |-> IF name[k] = "." THEN "_" ELSE name[k]] \o JsonExt

\* *path after `if !endsWithSlash.MatchString(*path) { *path += "/" }`
withSlash(p) == IF Len(p) > 0 /\ p[Len(p)] = "/" THEN p ELSE Append(p, "/")

NoError == [kind |-> "nil", subject |-> <<>>]

\* fmt.Errorf with the text of the failing step and what it names
WrappedError(kind, subject) == [kind |-> kind, subject |-> subject]

Op(op, entry, target, ok) == [op |-> op, entry |-> entry, target |-> target, ok |-> ok]

SchemaPool ==
  { [name |-> <<"a", ".", "b">>, Title |-> <<"A">>],
    [name |-> <<"a", "_", "b">>, Title |-> <<"B">>],
    [name |-> <<"c">>, Title |-> <<"C">>],
    [name |-> <<"d", ".", "e", ".", "f">>, Title |-> <<>>] }

PathPool == { <<"o">>, <<"o", "/">>, <<>> }

BuildInit ==
  /\ root = EmptyT /\ rootFields = <<>> /\ pc = "off" /\ stack = <<>> /\ visited = {}
  /\ definitions = EmptyMap /\ counter = 0 /\ schema = NoSchema /\ cuts = {} /\ steps = 0
  /\ descents = <<>>
  /\ bpc = "start"
  /\ path \in PathPool
  /\ genSchema \in {g \in SUBSET SchemaPool : Cardinality(g) <= MaxSchemas}
  /\ pending = genSchema
  /\ dir \in {"present", "absent", "denied"}
  /\ files = EmptyMap
  /\ ops = <<>>
  /\ ret = <<>>

\* os.Stat finds the path, or fails with an error that is not IsNotExist
StatFound ==
  /\ bpc = "start" /\ dir # "absent"
  /\ path' = withSlash(path)
  /\ bpc' = "loop"
  /\ UNCHANGED <<genSchema, pending, dir, files, ops, ret>>
  /\ UNCHANGED walkVars

\* the path does not exist and os.MkdirAll creates it
MkdirAllOK ==
  /\ bpc = "start" /\ dir = "absent"
  /\ path' = withSlash(path)
  /\ dir' = "present"
  /\ ops' = Append(ops, Op("mkdir", <<>>, withSlash(path), TRUE))
  /\ bpc' = "loop"
  /\ UNCHANGED <<genSchema, pending, files, ret>>
  /\ UNCHANGED walkVars

\* the path does not exist and os.MkdirAll fails
MkdirAllFail ==
  /\ bpc = "start" /\ dir = "absent"
  /\ path' = withSlash(path)
  /\ ops' = Append(ops, Op("mkdir", <<>>, withSlash(path), FALSE))
  /\ ret' = <<WrappedError("mkdir", withSlash(path))>>
  /\ bpc' = "returned"
  /\ UNCHANGED <<genSchema, pending, dir, files>>
  /\ UNCHANGED walkVars

\* one iteration of the range loop: json.MarshalIndent fails
MarshalFail ==
  /\ bpc = "loop"
  /\ \E e \in pending :
       /\ pending' = pending \ {e}
       /\ ops' = Append(ops, Op("marshal", e.name, <<>>, FALSE))
       /\ ret' = <<WrappedError("marshal", e.Title)>>
  /\ bpc' = "returned"
  /\ UNCHANGED <<path, genSchema, dir, files>>
  /\ UNCHANGED walkVars

\* a bug the writer could have: the error of os.WriteFile is dropped and the
\* loop goes on
WriteFileFailIgnored ==
  /\ bpc = "loop"
  /\ \E e \in pending :
       LET filename == path \o buildFileName(e.name)
       IN /\ pending' = pending \ {e}
          /\ ops' = ops \o <<Op("marshal", e.name, <<>>, TRUE),
                             Op("write", e.name, filename, FALSE)>>
  /\ UNCHANGED <<bpc, path, genSchema, dir, files, ret>>
  /\ UNCHANGED walkVars

\* one iteration of the range loop: os.WriteFile fails
WriteFileFail ==
  /\ bpc = "loop"
  /\ \E e \in pending :
       LET filename == path \o buildFileName(e.name)
       IN /\ pending' = pending \ {e}
          /\ ops' = ops \o <<Op("marshal", e.name, <<>>, TRUE),
                             Op("write", e.name, filename, FALSE)>>
          /\ ret' = <<WrappedError("write", filename)>>
  /\ bpc' = "returned"
  /\ UNCHANGED <<path, genSchema, dir, files>>
  /\ UNCHANGED walkVars

\* one iteration of the range loop: the file is written
WriteFileOK ==
  /\ bpc = "loop"
  /\ \E e \in pending :
       LET filename == path \o buildFileName(e.name)
       IN /\ pending' = pending \ {e}
          /\ ops' = ops \o <<Op("marshal", e.name, <<>>, TRUE),
                             Op("write", e.name, filename, TRUE)>>
          /\ files' = MapPut(files, filename, e.name)
  /\ UNCHANGED <<bpc, path, genSchema, dir, ret>>
  /\ UNCHANGED walkVars

\* the range loop is over: return nil
ReturnNil ==
  /\ bpc = "loop" /\ pending = {}
  /\ ret' = <<NoError>>
  /\ bpc' = "returned"
  /\ UNCHANGED <<path, genSchema, pending, dir, files, ops>>
  /\ UNCHANGED walkVars

BuildNext ==
  \/ StatFound
  \/ MkdirAllOK
  \/ MkdirAllFail
  \/ MarshalFail
  \/ WriteFileFail
  \/ WriteFileOK
  \/ ReturnNil

BuildSpec == BuildInit /\ [][BuildNext]_vars


(***************************************************************************)
(* Properties.  cuts records every field the cycle guard stopped: its      *)
(* composite t, the counter nc of the descent, whether t was being         *)
(* expanded on the descent path, the composite it is a field of, and the   *)
(* property emitted.  steps counts the steps of the walk.  descents logs    *)
(* every call of buildProperties made for a field that holds a composite.  *)
(***************************************************************************)
\* a property with no nested properties, neither its own nor its items'
IsTerminal(p) ==
  /\ MapLen(p.Properties) = 0
  /\ \A k \in DOMAIN p.Items : MapLen(p.Items[k].Properties) = 0

Max(S) == IF S = {} THEN 0 ELSE CHOOSE x \in S : \A y \in S : y <= x

RECURSIVE NestDepth(_)
\* the nesting depth of a property mapping
NestDepth(props) ==
  IF DOMAIN props = {} THEN 0
  ELSE 1 + Max({NestDepth(props[k].Properties) : k \in DOMAIN props}
               \cup {NestDepth(props[k].Items[1].Properties) :
                       k \in {x \in DOMAIN props : props[x].Items # <<>>}})

\* the walk has a next step to take: it is at the start, at a field, or at
\* the end of a composite's fields
InProgress == pc = "start" \/ atField \/ atEnd

\* C1: from any root type the walk ends.  It is never stuck before
\* GenerateSchema returns; the descent path never holds more activations than
\* composites marked visited, plus one; its length is bounded by the number of
\* activations times the fields of a composite; a field stopped by the cycle
\* guard is emitted with no nested properties; and the output is no deeper
\* than the number of composites visited, plus one.
C1_Terminates ==
  /\ pc \in {"done", "panic"} \/ InProgress
  /\ root # NilT => pc # "panic"
  /\ Len(stack) <= Cardinality(visited) + 1
  /\ LET rootTarget == expandTarget(root)
         activations == 1 + (IF rootTarget = <<>> THEN 0 ELSE Len(Fields(rootTarget[1])))
                          + Cardinality(visited)
         width == Max({Len(Fields(t)) : t \in visited})
     IN steps <= 1 + activations * (width + 1)
  /\ \A c \in cuts : IsTerminal(c.prop)
  /\ pc = "done" =>
       /\ NestDepth(schema.Properties) <= Cardinality(visited) + 1
       /\ \A d \in DOMAIN schema.Definitions :
            NestDepth(schema.Definitions[d].Properties) <= Cardinality(visited) + 1

\* a walk of mutually recursive composites has returned, with a recursive
\* field cut on its descent path
C1_Witness ==
  /\ pc = "done" /\ root = MAT
  /\ \E c \in cuts : c.onPath /\ c.t = MAT

(***************************************************************************)
(* The vocabulary of the statements below.                                 *)
(***************************************************************************)
Range(q) == {q[k] : k \in DOMAIN q}

RECURSIVE Flatten(_)
Flatten(qq) == IF Len(qq) = 0 THEN <<>> ELSE qq[1] \o Flatten(Tail(qq))

\* snake case: every uppercase letter lower-cased and, except at position 0,
\* prefixed by an underscore
SnakeCase(s) ==
  Flatten([k \in 1..Len(s) |->
             IF IsUpper(s[k])
             THEN (IF k = 1 THEN <<ToLower(s[k])>> ELSE <<"_", ToLower(s[k])>>)
             ELSE <<s[k]>>])

\* the key part of a field's tag: what precedes the first comma
KeyPart(f) == Split(f.Tag)[1]

\* the field carries the omit-entirely sentinel
Omitted(f) == KeyPart(f) = Dash

\* the options of the tag hold the omit-if-empty marker
OmitIfEmpty(f) == Contains(Join(Tail(Split(f.Tag))), OmitEmpty)

\* the external key: the explicit tag name, else the snake-cased identifier
ExternalKey(f) == IF Len(KeyPart(f)) > 0 THEN KeyPart(f) ELSE SnakeCase(f.Name)

\* a sequence of bytes: declared directly, through a named type, or behind a pointer
IsByteSlice(t) == t.kind = "slice" /\ Elem(t).kind = "uint8" /\ Elem(t).qual = "uint8"

IsByteBlob(t) == IsByteSlice(t) \/ (t.kind = "ptr" /\ IsByteSlice(Elem(t)))

\* the fields a composite activation has already been through, by index
Processed(fr) == 1..(fr.i - 1)

\* the field an activation processed last still sits under its own key
LastEmitted(fr) ==
  IF fr.i > 1 /\ ~Omitted(Fields(fr.t)[fr.i - 1]) THEN {Fields(fr.t)[fr.i - 1]} ELSE {}

\* no other field of the composite resolves to the key of its field number j
UniqueKey(t, j) ==
  \A k \in DOMAIN Fields(t) :
    k # j /\ ~Omitted(Fields(t)[k]) => ExternalKey(Fields(t)[k]) # ExternalKey(Fields(t)[j])

\* the composite GenerateSchema reports on, when the root is one (or points at one)
RootComposite ==
  IF root.kind = "struct" THEN {root}
  ELSE IF root.kind = "ptr" /\ Elem(root).kind = "struct" THEN {Elem(root)}
  ELSE {}

\* every required key of a property is a key of its properties, at every depth
RECURSIVE RequiredWithin(_)
RequiredWithin(p) ==
  /\ Range(p.Required) \subseteq
       (DOMAIN p.Properties \cup UNION {DOMAIN p.Items[k].Properties : k \in DOMAIN p.Items})
  /\ \A k \in DOMAIN p.Items :
       /\ Range(p.Items[k].Required) \subseteq DOMAIN p.Items[k].Properties
       /\ \A x \in DOMAIN p.Items[k].Properties : RequiredWithin(p.Items[k].Properties[x])
  /\ \A x \in DOMAIN p.Properties : RequiredWithin(p.Properties[x])

\* C2: a field is stopped by the cycle guard only when its composite is being
\* expanded on the current descent path; a composite merely expanded earlier
\* in the walk is expanded again.
C2_OnlyCyclesCut == \A c \in cuts : c.onPath

\* C3: when GenerateSchema has returned, every required key is a key of the
\* property mapping beside it, at the root, in every nested property and in
\* every hoisted definition.
C3_RequiredSubset ==
  pc = "done" =>
    /\ Range(schema.Required) \subseteq DOMAIN schema.Properties
    /\ \A x \in DOMAIN schema.Properties : RequiredWithin(schema.Properties[x])
    /\ \A d \in DOMAIN schema.Definitions : RequiredWithin(schema.Definitions[d])

\* C4 (as amended): the keys of the returned property mapping are exactly the
\* external keys of the fields of the root composite that are not omitted
\* entirely.
C4_KeysAreExternalKeys ==
  pc = "done" /\ expandTarget(root) # <<>> =>
    DOMAIN schema.Properties =
      {ExternalKey(f) : f \in {g \in Range(Fields(expandTarget(root)[1])) : ~Omitted(g)}}

\* C4 (as claimed): moreover no untagged field's unconverted identifier is a key.
C4_IdentifierNeverKey ==
  pc = "done" /\ expandTarget(root) # <<>> =>
    /\ DOMAIN schema.Properties =
         {ExternalKey(f) : f \in {g \in Range(Fields(expandTarget(root)[1])) : ~Omitted(g)}}
    /\ \A f \in Range(Fields(expandTarget(root)[1])) :
         Len(KeyPart(f)) = 0 => f.Name \notin DOMAIN schema.Properties

\* properties were returned for an untagged field whose identifier had to be
\* converted
C4_Witness ==
  /\ pc = "done" /\ root = RT
  /\ \E k \in DOMAIN rootFields :
       /\ Len(KeyPart(rootFields[k])) = 0
       /\ rootFields[k].Name = <<"I", "O", "h">>
       /\ <<"i", "_", "o", "h">> \in DOMAIN schema.Properties

\* C5: a field omitted entirely is no key of the properties of its composite
\* and is not in its required list: neither under "-" nor under its
\* identifier's key (unless another field resolves to that key).
C5_OmittedNowhere ==
  pc = "done" =>
    \A t \in RootComposite : \A f \in Range(Fields(t)) :
      Omitted(f) =>
        /\ Dash \notin DOMAIN schema.Properties
        /\ Dash \notin Range(schema.Required)
        /\ (\A g \in Range(Fields(t)) : Omitted(g) \/ ExternalKey(g) # SnakeCase(f.Name)) =>
             /\ SnakeCase(f.Name) \notin DOMAIN schema.Properties
             /\ SnakeCase(f.Name) \notin Range(schema.Required)

\* C6: a pointer-shaped field's key is in the required list iff its external
\* key is tags.
C6_PointerRequiredIffTags ==
  pc = "done" =>
    \A t \in RootComposite : \A j \in DOMAIN Fields(t) :
      Fields(t)[j].Type.kind = "ptr" /\ UniqueKey(t, j) =>
        (ExternalKey(Fields(t)[j]) \in Range(schema.Required)
           <=> ExternalKey(Fields(t)[j]) = TagsKey)

\* the required list the rule of C7 gives for a sequence of fields
RECURSIVE RequiredByRule(_)
RequiredByRule(fs) ==
  IF Len(fs) = 0 THEN <<>>
  ELSE LET f == fs[1]
           in == /\ ~Omitted(f)
                 /\ f.Type.kind # "slice"
                 /\ IF f.Type.kind = "ptr" THEN ExternalKey(f) = TagsKey ELSE ~OmitIfEmpty(f)
       IN (IF in THEN <<ExternalKey(f)>> ELSE <<>>) \o RequiredByRule(Tail(fs))

\* C7: GenerateRequired returns, in declaration order, the external keys of
\* the fields that are not skipped, not sequences, and either not pointers and
\* without the omit-if-empty marker, or pointers with the key tags.
C7_RequiredRule ==
  pc = "done" => \A t \in RootComposite : schema.Required = RequiredByRule(Fields(t))

\* a named composite with more than two properties
Hoistable(t) ==
  /\ t.kind = "struct" /\ t.name # ""
  /\ Cardinality({ExternalKey(f) : f \in {g \in Range(Fields(t)) : ~Omitted(g)}}) > 2

\* C8: two sibling fields whose type is the same named composite with more
\* than two properties are both emitted as references to its one $defs entry,
\* in every composite the walk expands.
C8_SiblingsShareDefinition ==
  \A n \in DOMAIN stack :
    LET fr == stack[n]
        fs == Fields(fr.t)
    IN \A a \in Processed(fr) : \A b \in Processed(fr) :
         /\ a < b /\ fs[a].Type = fs[b].Type /\ Hoistable(fs[a].Type)
         /\ ~Omitted(fs[a]) /\ ~Omitted(fs[b])
         /\ UniqueKey(fr.t, a) /\ UniqueKey(fr.t, b)
         => /\ fs[a].Type.name \in DOMAIN definitions
            /\ \A c \in {a, b} :
                 /\ ExternalKey(fs[c]) \in DOMAIN fr.props
                 /\ fr.props[ExternalKey(fs[c])].Ref = "#/$defs/" \o fs[a].Type.name

\* the property of an opaque field, as emitted
OpaqueEmitted ==
  \A n \in DOMAIN stack : \A f \in LastEmitted(stack[n]) :
    f.Type.kind = "interface" =>
      /\ ExternalKey(f) \in DOMAIN stack[n].props
      /\ stack[n].props[ExternalKey(f)].Type = <<>>
      /\ stack[n].props[ExternalKey(f)].Format = ""

\* C9 (as amended): an opaque field that is not omitted entirely is emitted
\* with an empty type keyword and no format; its key, when no other field of
\* the composite has it, is in the required list exactly when its tag carries
\* no omit-if-empty marker.
C9_OpaqueRequiredUnlessMarked ==
  /\ OpaqueEmitted
  /\ pc = "done" =>
       \A t \in RootComposite : \A j \in DOMAIN Fields(t) :
         Fields(t)[j].Type.kind = "interface" /\ ~Omitted(Fields(t)[j]) /\ UniqueKey(t, j) =>
           (ExternalKey(Fields(t)[j]) \in Range(schema.Required) <=> ~OmitIfEmpty(Fields(t)[j]))

\* C9 (as claimed): the key of an opaque field is never in the required list.
C9_OpaqueNeverRequired ==
  /\ OpaqueEmitted
  /\ pc = "done" =>
       \A t \in RootComposite : \A j \in DOMAIN Fields(t) :
         Fields(t)[j].Type.kind = "interface" /\ ~Omitted(Fields(t)[j]) /\ UniqueKey(t, j) =>
           ExternalKey(Fields(t)[j]) \notin Range(schema.Required)

\* a schema was returned for a composite with an unmarked and a marked opaque
\* field: the first is required, the second is not
C9_Witness ==
  /\ pc = "done" /\ root = RT
  /\ \E a \in DOMAIN rootFields : \E b \in DOMAIN rootFields :
       /\ rootFields[a].Type = AnyT /\ ~OmitIfEmpty(rootFields[a])
       /\ rootFields[b].Type = ErrorT /\ OmitIfEmpty(rootFields[b])
       /\ schema.Properties[ExternalKey(rootFields[a])].Type = <<>>
       /\ schema.Properties[ExternalKey(rootFields[b])].Type = <<>>
       /\ schema.Required = <<ExternalKey(rootFields[a])>>

\* C10: a byte-blob field is emitted with type "string" and format "byte",
\* and with no item definition.
C10_ByteBlobIsString ==
  \A n \in DOMAIN stack : \A f \in LastEmitted(stack[n]) :
    IsByteBlob(f.Type) =>
      /\ ExternalKey(f) \in DOMAIN stack[n].props
      /\ stack[n].props[ExternalKey(f)].Type = <<"string">>
      /\ stack[n].props[ExternalKey(f)].Format = "byte"
      /\ stack[n].props[ExternalKey(f)].Items = <<>>

\* a dictionary: an unnamed map type, a named type whose kind is map, or a
\* pointer to either
IsMapShaped(t) == t.kind = "map" \/ (t.kind = "ptr" /\ Elem(t).kind = "map")

\* C11: every map-shaped field is classified ("object", terminal): its
\* property has type "object", carries no nested properties, and no expansion
\* of the field's type is attempted.
C11_MapIsObject ==
  \A n \in DOMAIN stack : \A f \in LastEmitted(stack[n]) :
    IsMapShaped(f.Type) =>
      /\ extractFieldInfo(f).SkipNested
      /\ ExternalKey(f) \in DOMAIN stack[n].props
      /\ stack[n].props[ExternalKey(f)].Type = <<"object">>
      /\ IsTerminal(stack[n].props[ExternalKey(f)])

\* a sequence: a slice, declared directly, through a named type, or behind a
\* pointer
IsSequence(t) == t.kind = "slice" \/ (t.kind = "ptr" /\ Elem(t).kind = "slice")

C13_FlatRootReturnsEmpty ==
  (root = NilT \/ expandTarget(root) = <<>>) /\ pc # "start" =>
    /\ pc = "done"
    /\ schema.Properties = EmptyMap
    /\ schema.Required = <<>>
    /\ schema.Definitions = EmptyMap

\* the file of a schema: the path, a slash unless it ends in one, the map key
\* with every "." replaced by "_", and ".json"
FileOf(p, name) ==
  (IF Len(p) > 0 /\ p[Len(p)] = "/" THEN p ELSE p \o <<"/">>)
    \o Flatten([k \in 1..Len(name) |-> IF name[k] = "." THEN <<"_">> ELSE <<name[k]>>])
    \o <<".", "j", "s", "o", "n">>

\* what the error returned for a failed call names
Names(o) ==
  IF o.op = "marshal" THEN (CHOOSE e \in genSchema : e.name = o.entry).Title ELSE o.target

IsSeqOfComposite(t) ==
  /\ t.kind = "slice"
  /\ \/ Elem(t).kind = "struct"
     \/ Elem(t).kind = "ptr" /\ Elem(Elem(t)).kind = "struct"

\* two property definitions that differ at most in their documentation label
SameButLabel(p, q) ==
  /\ p.Type = q.Type /\ p.Format = q.Format /\ p.Required = q.Required
  /\ p.Properties = q.Properties /\ p.Ref = q.Ref
  /\ Len(p.Items) = Len(q.Items)
  /\ \A k \in DOMAIN p.Items : k \in DOMAIN q.Items =>
       /\ p.Items[k].Type = q.Items[k].Type /\ p.Items[k].Format = q.Items[k].Format
       /\ p.Items[k].Required = q.Items[k].Required
       /\ p.Items[k].Properties = q.Items[k].Properties

\* C15: in every composite the walk expands, a field whose type is a pointer
\* to a sequence of composites (or of pointers to composites) gets the same
\* property definition as a sibling field whose type is that sequence itself:
\* type "array" and the same item type, item properties, item format and
\* required lists.
C15_PointerToSequenceSame ==
  \A n \in DOMAIN stack :
    LET fr == stack[n]
        fs == Fields(fr.t)
    IN \A a \in Processed(fr) : \A b \in Processed(fr) :
         /\ IsSeqOfComposite(fs[a].Type) /\ fs[b].Type = PtrTo(fs[a].Type)
         /\ ~Omitted(fs[a]) /\ ~Omitted(fs[b])
         /\ UniqueKey(fr.t, a) /\ UniqueKey(fr.t, b)
         => /\ ExternalKey(fs[a]) \in DOMAIN fr.props
            /\ ExternalKey(fs[b]) \in DOMAIN fr.props
            /\ fr.props[ExternalKey(fs[b])].Type = typeArray
            /\ SameButLabel(fr.props[ExternalKey(fs[a])], fr.props[ExternalKey(fs[b])])

\* C16: at every point of a walk in progress the VisitedSet holds exactly the
\* composites whose expansion is in progress on the descent path; a composite
\* whose expansion has returned is no longer in it.
C16_VisitedIsDescentPath == pc = "walk" => visited = pathTypes

RECURSIVE RefsResolve(_, _)
RefsResolve(p, defs) ==
  /\ p.Ref # "" => \E d \in DOMAIN defs : p.Ref = "#/$defs/" \o d
  /\ \A x \in DOMAIN p.Properties : RefsResolve(p.Properties[x], defs)
  /\ \A k \in DOMAIN p.Items :
       \A x \in DOMAIN p.Items[k].Properties : RefsResolve(p.Items[k].Properties[x], defs)

\* the entry is the schema of composite t: its properties are keyed by the
\* external keys of t's fields and its required list is that of t
IsSchemaOf(entry, t) ==
  /\ DOMAIN entry.Properties = {ExternalKey(g) : g \in {h \in Range(Fields(t)) : ~Omitted(h)}}
  /\ entry.Required = RequiredByRule(Fields(t))

\* C18: every reference node names a key present in $defs, and the entry
\* under that key is the schema of the referencing field's own composite
\* type: when the field is emitted, and in the Schema GenerateSchema returns.
C18_ReferenceResolvesToOwnType ==
  /\ \A n \in DOMAIN stack : \A f \in LastEmitted(stack[n]) :
       ExternalKey(f) \in DOMAIN stack[n].props
         /\ stack[n].props[ExternalKey(f)].Ref # "" =>
           \E d \in DOMAIN definitions :
             /\ stack[n].props[ExternalKey(f)].Ref = "#/$defs/" \o d
             /\ IsSchemaOf(definitions[d], f.Type)
  /\ pc = "done" =>
       /\ \A x \in DOMAIN schema.Properties :
            RefsResolve(schema.Properties[x], schema.Definitions)
       /\ \A d \in DOMAIN schema.Definitions :
            RefsResolve(schema.Definitions[d], schema.Definitions)

\* the type keywords of JSON Schema the generator may emit, and no keyword
JsonTypes ==
  { <<>>, <<"string">>, <<"number">>, <<"integer">>, <<"boolean">>, <<"object">>, <<"array">> }

\* every type keyword of a property, at any depth, is one of JsonTypes
RECURSIVE TypesValid(_)
TypesValid(p) ==
  /\ p.Type \in JsonTypes
  /\ \A x \in DOMAIN p.Properties : TypesValid(p.Properties[x])
  /\ \A k \in DOMAIN p.Items :
       /\ p.Items[k].Type \in JsonTypes
       /\ \A x \in DOMAIN p.Items[k].Properties : TypesValid(p.Items[k].Properties[x])

\* C19: every type keyword the walk emits, in properties, item definitions
\* and $defs entries, is empty or one of string, number, integer, boolean,
\* object, array.
C19_TypeKeywordsValid ==
  /\ \A n \in DOMAIN stack : \A x \in DOMAIN stack[n].props : TypesValid(stack[n].props[x])
  /\ \A d \in DOMAIN definitions : TypesValid(definitions[d])
  /\ pc = "done" =>
       /\ schema.Type = "object"
       /\ \A x \in DOMAIN schema.Properties : TypesValid(schema.Properties[x])


====
